---- MODULE Spec2Model ----
(***************************************************************************)
(* A model of delete_workflow_runs.py: the transport (http_get,            *)
(* http_delete), parse_link_header, paginate and the DeleteWorkflowRuns    *)
(* controller.                                                             *)
(*                                                                         *)
(* Text is a sequence of one-character strings, so that splitting,         *)
(* stripping, slicing and the test '?' in url are computed as Python       *)
(* computes them.  An optional value is a sequence of length 0 (None) or   *)
(* 1 (the value).  The remote server and the user are the environment:     *)
(* every response and every typed line is drawn from a small set.          *)
(***************************************************************************)
EXTENDS Naturals, Sequences, FiniteSets

\* ------------------------------------------------------------------ bounds

\* The most GET requests one invocation issues (caps the pagination loop).
MaxPages == 2

\* ------------------------------------------------------------- text helpers

None == << >>

Some(x) == <<x>>

\* Python truthiness of an optional text: None and "" are falsy.
Truthy(u) == u # None /\ u[1] # << >>

\* c in s
Contains(s, c) == \E i \in 1..Len(s) : s[i] = c

\* s.split(sep): always at least one piece.
RECURSIVE Split(_, _)
Split(s, sep) ==
    IF Contains(s, sep)
    THEN LET i == CHOOSE k \in 1..Len(s) :
                      s[k] = sep /\ \A j \in 1..(k - 1) : s[j] # sep
         IN  <<SubSeq(s, 1, i - 1)>> \o Split(SubSeq(s, i + 1, Len(s)), sep)
    ELSE <<s>>

IsSpace(c) == c \in {" ", "\t"}

RECURSIVE LStrip(_)
LStrip(s) == IF s # << >> /\ IsSpace(Head(s)) THEN LStrip(Tail(s)) ELSE s

RECURSIVE RStrip(_)
RStrip(s) ==
    IF s # << >> /\ IsSpace(s[Len(s)]) THEN RStrip(SubSeq(s, 1, Len(s) - 1)) ELSE s

\* s.strip()
Strip(s) == RStrip(LStrip(s))

\* s[1:-1]
Inner(s) == IF Len(s) < 2 THEN << >> ELSE SubSeq(s, 2, Len(s) - 1)

\* s.lower(), on the letters the model types.
LowerChar(c) ==
    CASE c = "Y" -> "y"
      [] c = "E" -> "e"
      [] c = "S" -> "s"
      [] c = "N" -> "n"
      [] OTHER   -> c

Lower(s) == [i \in 1..Len(s) |-> LowerChar(s[i])]

\* str(n) of a natural number.
Digit(d) == <<"0", "1", "2", "3", "4", "5", "6", "7", "8", "9">>[d + 1]

RECURSIVE Str(_)
Str(n) == IF n < 10 THEN <<Digit(n)>> ELSE Str(n \div 10) \o <<Digit(n % 10)>>

\* urllib.parse.quote_plus of one character: a space becomes '+', a reserved
\* character its percent escape, anything else (letters, digits, _.-~) itself.
QuoteChar(c) ==
    CASE c = " "  -> <<"+">>
      [] c = "?"  -> <<"%", "3", "F">>
      [] c = "="  -> <<"%", "3", "D">>
      [] c = "&"  -> <<"%", "2", "6">>
      [] c = "/"  -> <<"%", "2", "F">>
      [] c = ","  -> <<"%", "2", "C">>
      [] c = ";"  -> <<"%", "3", "B">>
      [] c = "<"  -> <<"%", "3", "C">>
      [] c = ">"  -> <<"%", "3", "E">>
      [] c = "\"" -> <<"%", "2", "2">>
      [] OTHER    -> <<c>>

RECURSIVE QuotePlus(_)
QuotePlus(s) == IF s = << >> THEN << >> ELSE QuoteChar(Head(s)) \o QuotePlus(Tail(s))

\* urlencode(params): params is a sequence of <<key, value>> pairs of texts.
RECURSIVE UrlEncode(_)
UrlEncode(params) ==
    IF params = << >> THEN << >>
    ELSE LET kv == QuotePlus(Head(params)[1]) \o <<"=">> \o QuotePlus(Head(params)[2])
         IN  IF Len(params) = 1 THEN kv ELSE kv \o <<"&">> \o UrlEncode(Tail(params))

\* ---------------------------------------------------------------- transport

\* A faulty transport: the parameters are added whether or not the URL holds
\* a '?'.
RequestUrlAlwaysAppend(url, params) ==
    IF params # << >> THEN url \o <<"?">> \o UrlEncode(params) ELSE url

\* The URL http_get / http_delete put on the wire (the first two lines of each).
RequestUrl(url, params) ==
    IF params # << >> /\ ~Contains(url, "?")
    THEN url \o <<"?">> \o UrlEncode(params)
    ELSE url

\* ------------------------------------------------------- parse_link_header

EmptyDict == [x \in {} |-> << >>]

\* link_dict[rel] = url
DictSet(d, k, v) == [x \in (DOMAIN d) \cup {k} |-> IF x = k THEN v ELSE d[x]]

\* The body of the for loop, over the links not yet visited.  A subscript out
\* of range raises IndexError, which leaves parse_link_header at once.
RECURSIVE ParseLinks(_, _)
ParseLinks(links, d) ==
    IF links = << >> THEN [kind |-> "dict", dict |-> d]
    ELSE LET section == Split(Head(links), ";") IN
         IF Len(section) < 2 THEN [kind |-> "raise", dict |-> EmptyDict]
         ELSE LET url == Inner(Strip(section[1]))
                  kv  == Split(Strip(section[2]), "=")
              IN  IF Len(kv) < 2 THEN [kind |-> "raise", dict |-> EmptyDict]
                  ELSE ParseLinks(Tail(links), DictSet(d, Inner(kv[2]), url))

\* parse_link_header(link_header): kind is "none" (returns None), "dict"
\* (returns link_dict) or "raise" (IndexError).
ParseLinkHeader(h) ==
    IF h = None \/ h[1] = << >> THEN [kind |-> "none", dict |-> EmptyDict]
    ELSE ParseLinks(Split(h[1], ","), EmptyDict)

RelNext == <<"n", "e", "x", "t">>

\* url = links.get('next') if links else None
NextUrl(links) ==
    IF links.kind = "dict" /\ DOMAIN links.dict # {} /\ RelNext \in DOMAIN links.dict
    THEN Some(links.dict[RelNext])
    ELSE None

\* ------------------------------------------------------------ program text

\* status == 200 in paginate
StatusOK == 200

\* status == 204 in delete_workflow_runs
StatusNoContent == 204

\* params={"per_page": 20}
PerPage == 20

Params == << <<<<"p", "e", "r", "_", "p", "a", "g", "e">>, Str(PerPage)>> >>

\* commands = ["list_workflows", "delete_workflow_runs"]
Commands == {"list_workflows", "delete_workflow_runs"}

ReposPrefix == <<"/", "r", "e", "p", "o", "s", "/">>

ActionsWorkflows ==
    <<"/", "a", "c", "t", "i", "o", "n", "s", "/",
      "w", "o", "r", "k", "f", "l", "o", "w", "s">>

ActionsRuns == <<"/", "a", "c", "t", "i", "o", "n", "s", "/", "r", "u", "n", "s", "/">>

RunsSuffix == <<"/", "r", "u", "n", "s">>

\* f"/repos/{self.owner}/{self.repo}/actions/workflows"
WorkflowsUrl(o, r) == ReposPrefix \o o \o <<"/">> \o r \o ActionsWorkflows

\* f"/repos/{self.owner}/{self.repo}/actions/workflows/{workflow_id}/runs"
WorkflowRunsUrl(o, r, w) == WorkflowsUrl(o, r) \o <<"/">> \o w \o RunsSuffix

\* f"/repos/{self.owner}/{self.repo}/actions/runs/{run_id}"
RunUrl(o, r, id) == ReposPrefix \o o \o <<"/">> \o r \o ActionsRuns \o Str(id)

\* The headers property.
HeadersOf(t) ==
    [Accept        |-> "application/vnd.github+json",
     Authorization |-> <<"B", "e", "a", "r", "e", "r", " ">> \o t,
     UserAgent     |-> "Python",
     ApiVersion    |-> "2022-11-28"]

\* A faulty flattening: the pages are joined last page first.
RECURSIVE FlattenReversed(_)
FlattenReversed(responses) ==
    IF responses = << >> THEN << >>
    ELSE FlattenReversed(Tail(responses)) \o Head(responses)

\* [x for response in responses for x in response[key]]
RECURSIVE Flatten(_)
Flatten(responses) ==
    IF responses = << >> THEN << >> ELSE Head(responses) \o Flatten(Tail(responses))

\* -------------------------------------------------------------- environment

\* What the user may type at each prompt.
Tokens == {<<"s">>, <<"k">>}

Owners == {<<"o">>}

RepoNames == {<<"r">>}

WorkflowIds == {<<"7">>}

CommandInputs == Commands \cup {"list"}

ConfirmInputs ==
    {<<"y">>, <<"Y">>, << >>, <<"n">>, <<"y", "e", "s">>, <<" ", "y">>, <<"y", " ">>}

\* What the server may answer.
GetStatuses == {StatusOK, 201, 404}

DeleteStatuses == {StatusNoContent, StatusOK, 404}

Item(i, n) == [id |-> i, name |-> n]

\* The item lists one page may carry.
Payloads ==
    {<< >>,
     <<Item(12, <<"c", "i">>)>>,
     <<Item(5, <<"l", "i", "n", "t">>), Item(3, <<"c", "i">>)>>}

\* One entry of a Link header as the server writes it: <url>; rel="name", with
\* padding before the entry, around the ';' and after the entry.
LinkEntry(u, rel, pad) == [url |-> u, rel |-> rel, pad |-> pad]

RenderEntry(e) ==
    e.pad \o <<"<">> \o e.url \o <<">">> \o e.pad \o <<";", " ">> \o e.pad
          \o <<"r", "e", "l", "=", "\"">> \o e.rel \o <<"\"">> \o e.pad

\* The header value: the entries, separated by commas.
RECURSIVE Render(_)
Render(es) ==
    IF Len(es) = 1 THEN RenderEntry(es[1])
    ELSE RenderEntry(Head(es)) \o <<",">> \o Render(Tail(es))

RelPrev == <<"p", "r", "e", "v">>

RelLast == <<"l", "a", "s", "t">>

UrlQuery == <<"/", "n", "?", "p", "=", "2">>

UrlPlain == <<"/", "m">>

UrlComma == <<"/", "a", ",", "b">>

UrlSemi == <<"/", "a", ";", "x", "=", "\"", "r", "\"", ",", "b">>

NoPad == << >>

\* A Link header a response carries: the entries it was written from (none for
\* an absent or empty header) and the header value.
Absent == [entries |-> << >>, text |-> None]

Blank == [entries |-> << >>, text |-> Some(<< >>)]

Written(es) == [entries |-> es, text |-> Some(Render(es))]

\* The Link headers a page may carry: absent, empty, one entry, two padded
\* entries, an entry with no "next", and an entry whose URL holds a comma.
LinkHeaders ==
    {Absent,
     Blank,
     Written(<<LinkEntry(UrlQuery, RelNext, NoPad)>>),
     Written(<<LinkEntry(UrlQuery, RelPrev, <<" ">>),
               LinkEntry(UrlPlain, RelNext, <<" ", "\t">>)>>),
     Written(<<LinkEntry(UrlQuery, RelLast, NoPad)>>),
     Written(<<LinkEntry(UrlComma, RelNext, NoPad)>>)}

\* The Link headers an error response may carry.
ErrorLinkHeaders == {Absent, Written(<<LinkEntry(UrlQuery, RelNext, NoPad)>>)}

\* -------------------------------------------------------------------- state

VARIABLES
    pc,             \* where the program is
    token,          \* self.token
    owner,          \* self.owner
    repo,           \* self.repo
    command,        \* run's local command
    workflow_id,    \* run's local workflow_id
    url,            \* paginate's local url
    response_data,  \* paginate's local response_data
    workflow_runs,  \* delete_workflow_runs' local workflow_runs
    idx,            \* position of the for loop over workflow_runs
    confirm,        \* delete_workflow_runs' local confirm
    link_entries,   \* the entries the last Link header was written from
    link_header,    \* response_headers.get('Link') of the last response
    links,          \* paginate's local links
    link_malformed, \* the malformed segment the last Link header ends with, if any
    server_runs,    \* the runs the server holds for the workflow
    invocation,     \* which run of the program this is
    deleted_first,  \* the runs the first invocation deleted (answered 204)
    requests,       \* every request sent, with the answer it got
    events          \* prompts, requests and printed lines, in program order

vars == <<pc, token, owner, repo, command, workflow_id, url, response_data,
          workflow_runs, idx, confirm, link_entries, link_header, links,
          link_malformed, server_runs, invocation, deleted_first,
          requests, events>>

parse_vars == <<link_entries, link_header, links, link_malformed>>

server_vars == <<server_runs, invocation, deleted_first>>

\* links before parse_link_header has returned anything.
Unset == [kind |-> "unset", dict |-> EmptyDict]

Prompt(tag) == [kind |-> "prompt", tag |-> tag, num |-> 0, text |-> << >>]

Printed(tag, n, t) == [kind |-> "print", tag |-> tag, num |-> n, text |-> t]

Sent(method, n, u) == [kind |-> "request", tag |-> method, num |-> n, text |-> u]

Request(method, arg, params, st, items, link) ==
    [method  |-> method,
     arg     |-> arg,
     params  |-> params,
     url     |-> RequestUrl(arg, params),
     headers |-> HeadersOf(token[1]),
     status  |-> st,
     items   |-> items,
     link    |-> link]

NumGets == Cardinality({i \in 1..Len(requests) : requests[i].method = "GET"})

\* DeleteWorkflowRuns()
Init ==
    /\ pc = "start"
    /\ token = None
    /\ owner = None
    /\ repo = None
    /\ command = ""
    /\ workflow_id = None
    /\ url = None
    /\ response_data = << >>
    /\ workflow_runs = << >>
    /\ idx = 0
    /\ confirm = None
    /\ link_entries = << >>
    /\ link_header = None
    /\ links = Unset
    /\ link_malformed = None
    /\ server_runs = << >>
    /\ invocation = 1
    /\ deleted_first = {}
    /\ requests = << >>
    /\ events = << >>

\* ---------------------------------------------------------------------- run

\* self.token = getpass.getpass(...)
ReadToken ==
    /\ pc = "start"
    /\ \E t \in Tokens : token' = Some(t)
    /\ events' = Append(events, Prompt("token"))
    /\ pc' = "command"
    /\ UNCHANGED parse_vars
    /\ UNCHANGED server_vars
    /\ UNCHANGED <<owner, repo, command, workflow_id, url, response_data,
                   workflow_runs, idx, confirm, requests>>

\* A faulty run: the command name is not checked.
ReadCommandNoCheck ==
    /\ pc = "command"
    /\ \E c \in CommandInputs : command' = c
    /\ events' = Append(events, Prompt("command"))
    /\ pc' = "owner"
    /\ UNCHANGED parse_vars
    /\ UNCHANGED server_vars
    /\ UNCHANGED <<token, owner, repo, workflow_id, url, response_data,
                   workflow_runs, idx, confirm, requests>>

\* A faulty run: an unknown command name is asked for again.
ReadCommandRetry ==
    /\ pc = "command"
    /\ \E c \in CommandInputs :
          /\ command' = c
          /\ IF c \notin Commands
             THEN /\ events' = events \o <<Prompt("command"),
                                           Printed("Invalid command", 0, << >>)>>
                  /\ pc' = "command"
             ELSE /\ events' = Append(events, Prompt("command"))
                  /\ pc' = "owner"
    /\ UNCHANGED parse_vars
    /\ UNCHANGED server_vars
    /\ UNCHANGED <<token, owner, repo, workflow_id, url, response_data,
                   workflow_runs, idx, confirm, requests>>

\* command = input(...); if command not in commands: print, return
ReadCommand ==
    /\ pc = "command"
    /\ \E c \in CommandInputs :
          /\ command' = c
          /\ IF c \notin Commands
             THEN /\ events' = events \o <<Prompt("command"),
                                           Printed("Invalid command", 0, << >>)>>
                  /\ pc' = "done"
             ELSE /\ events' = Append(events, Prompt("command"))
                  /\ pc' = "owner"
    /\ UNCHANGED parse_vars
    /\ UNCHANGED server_vars
    /\ UNCHANGED <<token, owner, repo, workflow_id, url, response_data,
                   workflow_runs, idx, confirm, requests>>

\* self.owner = input(...)
ReadOwner ==
    /\ pc = "owner"
    /\ \E o \in Owners : owner' = Some(o)
    /\ events' = Append(events, Prompt("owner"))
    /\ pc' = "repo"
    /\ UNCHANGED parse_vars
    /\ UNCHANGED server_vars
    /\ UNCHANGED <<token, repo, command, workflow_id, url, response_data,
                   workflow_runs, idx, confirm, requests>>

\* self.repo = input(...), then the dispatch on command
ReadRepo ==
    /\ pc = "repo"
    /\ \E r \in RepoNames : repo' = Some(r)
    /\ events' = Append(events, Prompt("repo"))
    /\ pc' = IF command = "list_workflows" THEN "list_workflows" ELSE "workflow_id"
    /\ UNCHANGED parse_vars
    /\ UNCHANGED server_vars
    /\ UNCHANGED <<token, owner, command, workflow_id, url, response_data,
                   workflow_runs, idx, confirm, requests>>

\* A faulty run: the workflow id typed is also stored as the repository name.
ReadWorkflowIdIntoRepo ==
    /\ pc = "workflow_id"
    /\ \E w \in WorkflowIds : workflow_id' = Some(w) /\ repo' = Some(w)
    /\ events' = Append(events, Prompt("workflow_id"))
    /\ pc' = "list_workflow_runs"
    /\ UNCHANGED parse_vars
    /\ UNCHANGED server_vars
    /\ UNCHANGED <<token, owner, command, url, response_data,
                   workflow_runs, idx, confirm, requests>>

\* workflow_id = input(...)
ReadWorkflowId ==
    /\ pc = "workflow_id"
    /\ \E w \in WorkflowIds : workflow_id' = Some(w)
    /\ events' = Append(events, Prompt("workflow_id"))
    /\ pc' = "list_workflow_runs"
    /\ UNCHANGED parse_vars
    /\ UNCHANGED server_vars
    /\ UNCHANGED <<token, owner, repo, command, url, response_data,
                   workflow_runs, idx, confirm, requests>>

\* ----------------------------------------------------------------- paginate

\* list_workflows builds its URL and enters paginate.
CallListWorkflows ==
    /\ pc = "list_workflows"
    /\ url' = Some(WorkflowsUrl(owner[1], repo[1]))
    /\ response_data' = << >>
    /\ pc' = "paginate"
    /\ UNCHANGED parse_vars
    /\ UNCHANGED server_vars
    /\ UNCHANGED <<token, owner, repo, command, workflow_id, workflow_runs, idx,
                   confirm, requests, events>>

\* delete_workflow_runs calls list_workflow_runs, which builds its URL and
\* enters paginate.
CallListWorkflowRuns ==
    /\ pc = "list_workflow_runs"
    /\ url' = Some(WorkflowRunsUrl(owner[1], repo[1], workflow_id[1]))
    /\ response_data' = << >>
    /\ pc' = "paginate"
    /\ UNCHANGED parse_vars
    /\ UNCHANGED server_vars
    /\ UNCHANGED <<token, owner, repo, command, workflow_id, workflow_runs, idx,
                   confirm, requests, events>>

\* A faulty loop body: after an error status the loop goes on with the "next"
\* link of the error response instead of breaking.
PageOutcomeKeepGoing(st, items, link) ==
    LET parsed == ParseLinkHeader(link) IN
    [data  |-> IF st = StatusOK THEN Append(response_data, items) ELSE response_data,
     links |-> IF parsed.kind = "raise" THEN links ELSE parsed,
     url   |-> IF parsed.kind = "raise" THEN url ELSE NextUrl(parsed),
     pc    |-> IF parsed.kind = "raise" THEN "crashed" ELSE "paginate",
     out   |-> IF st = StatusOK THEN << >>
               ELSE <<Printed("Failed to retrieve items", st, << >>),
                      Printed("body", 0, << >>)>>]

\* What one turn of the while loop does with the answer (st, items, link) to
\* its GET: the pages held, links, the next url and where the program goes.
\* An IndexError out of parse_link_header is caught nowhere: the program dies.
PageOutcome(st, items, link) ==
    IF st = StatusOK
    THEN LET parsed == ParseLinkHeader(link) IN
         [data  |-> Append(response_data, items),
          links |-> IF parsed.kind = "raise" THEN links ELSE parsed,
          url   |-> IF parsed.kind = "raise" THEN url ELSE NextUrl(parsed),
          pc    |-> IF parsed.kind = "raise" THEN "crashed" ELSE "paginate",
          out   |-> << >>]
    ELSE [data  |-> response_data,
          links |-> links,
          url   |-> url,
          pc    |-> "returned",
          out   |-> <<Printed("Failed to retrieve items", st, << >>),
                      Printed("body", 0, << >>)>>]

\* What one turn of the while loop does to the program when its GET is
\* answered (st, items, link): http_get, then the branch on the status.
Fetch(st, items, link) ==
    /\ LET req == Request("GET", url[1], Params, st, items, link.text)
           res == PageOutcome(st, items, link.text)
       IN  /\ requests' = Append(requests, req)
           /\ events' = events \o <<Printed("GET", 0, req.url),
                                    Sent("GET", Len(requests) + 1, req.url)>>
                               \o res.out
           /\ link_entries' = link.entries
           /\ link_header' = link.text
           /\ link_malformed' = None
           /\ links' = res.links
           /\ response_data' = res.data
           /\ url' = res.url
           /\ pc' = res.pc
    /\ UNCHANGED <<token, owner, repo, command, workflow_id, workflow_runs, idx,
                   confirm>>

\* One turn of the while loop, the server answering anything.
PaginateStep ==
    /\ pc = "paginate"
    /\ Truthy(url)
    /\ NumGets < MaxPages
    /\ \E st \in GetStatuses, items \in Payloads, link \in LinkHeaders :
          /\ st # StatusOK => items = << >> /\ link \in ErrorLinkHeaders
          /\ Fetch(st, items, link)
    /\ UNCHANGED server_vars

\* while url: is false; return response_data
PaginateExit ==
    /\ pc = "paginate"
    /\ ~Truthy(url)
    /\ pc' = "returned"
    /\ UNCHANGED parse_vars
    /\ UNCHANGED server_vars
    /\ UNCHANGED <<token, owner, repo, command, workflow_id, url, response_data,
                   workflow_runs, idx, confirm, requests, events>>

\* ----------------------------------------------------------- list_workflows

Rows(workflows) ==
    [i \in 1..Len(workflows) |-> Printed("row", workflows[i].id, workflows[i].name)]

\* A faulty report: the total counts the pages, not the workflows.
WorkflowsReportPageTotal(workflows) ==
    IF workflows = << >>
    THEN <<Printed("No workflows found.", 0, << >>)>>
    ELSE <<Printed("Workflow ID / Workflow Name", 0, << >>)>>
         \o Rows(workflows)
         \o <<Printed("Total", Len(response_data), << >>)>>

\* What list_workflows prints for the flattened list.
WorkflowsReport(workflows) ==
    IF workflows = << >>
    THEN <<Printed("No workflows found.", 0, << >>)>>
    ELSE <<Printed("Workflow ID / Workflow Name", 0, << >>)>>
         \o Rows(workflows)
         \o <<Printed("Total", Len(workflows), << >>)>>

\* list_workflows after paginate returned.
ListWorkflowsReport ==
    /\ pc = "returned"
    /\ command = "list_workflows"
    /\ events' = events \o WorkflowsReport(Flatten(response_data))
    /\ pc' = "done"
    /\ UNCHANGED parse_vars
    /\ UNCHANGED server_vars
    /\ UNCHANGED <<token, owner, repo, command, workflow_id, url, response_data,
                   workflow_runs, idx, confirm, requests>>

\* ----------------------------------------------------- delete_workflow_runs

\* A faulty delete_workflow_runs: the test for an empty list is missing.
CheckWorkflowRunsAlwaysAsk ==
    /\ pc = "returned"
    /\ command = "delete_workflow_runs"
    /\ workflow_runs' = Flatten(response_data)
    /\ events' = Append(events, Printed("Are you sure", Len(workflow_runs'), << >>))
    /\ pc' = "confirm"
    /\ UNCHANGED parse_vars
    /\ UNCHANGED server_vars
    /\ UNCHANGED <<token, owner, repo, command, workflow_id, url, response_data,
                   idx, confirm, requests>>

\* A faulty command: a listing that ended on a failure ends the command.
CheckWorkflowRunsAbortOnError ==
    /\ pc = "returned"
    /\ command = "delete_workflow_runs"
    /\ workflow_runs' = Flatten(response_data)
    /\ IF workflow_runs' = << >> \/ requests[Len(requests)].status # StatusOK
       THEN /\ events' = Append(events, Printed("No workflow runs found.", 0, << >>))
            /\ pc' = "done"
       ELSE /\ events' = Append(events,
                                Printed("Are you sure", Len(workflow_runs'), << >>))
            /\ pc' = "confirm"
    /\ UNCHANGED parse_vars
    /\ UNCHANGED server_vars
    /\ UNCHANGED <<token, owner, repo, command, workflow_id, url, response_data,
                   idx, confirm, requests>>

\* workflow_runs = self.list_workflow_runs(workflow_id), the test for an empty
\* list, and the question.
CheckWorkflowRuns ==
    /\ pc = "returned"
    /\ command = "delete_workflow_runs"
    /\ workflow_runs' = Flatten(response_data)
    /\ IF workflow_runs' = << >>
       THEN /\ events' = Append(events, Printed("No workflow runs found.", 0, << >>))
            /\ pc' = "done"
       ELSE /\ events' = Append(events,
                                Printed("Are you sure", Len(workflow_runs'), << >>))
            /\ pc' = "confirm"
    /\ UNCHANGED parse_vars
    /\ UNCHANGED server_vars
    /\ UNCHANGED <<token, owner, repo, command, workflow_id, url, response_data,
                   idx, confirm, requests>>

\* A faulty test: any answer that starts with 'y' or 'Y' counts as yes.
AffirmativePrefix(c) == c # << >> /\ LowerChar(c[1]) = "y"

\* if confirm.lower() != 'y'
Affirmative(c) == Lower(c) = <<"y">>

\* confirm = input(...), then the test on it.
ReadConfirm ==
    /\ pc = "confirm"
    /\ \E c \in ConfirmInputs :
          /\ confirm' = Some(c)
          /\ IF Affirmative(c)
             THEN /\ events' = events \o <<Prompt("confirm"),
                                           Printed("As you wish...", 0, << >>)>>
                  /\ idx' = 1
                  /\ pc' = "deleting"
             ELSE /\ events' = events \o <<Prompt("confirm"),
                                           Printed("Aborted.", 0, << >>)>>
                  /\ idx' = idx
                  /\ pc' = "done"
    /\ UNCHANGED parse_vars
    /\ UNCHANGED server_vars
    /\ UNCHANGED <<token, owner, repo, command, workflow_id, url, response_data,
                   workflow_runs, requests>>

\* A faulty report: every DELETE is reported as a success.
DeleteReportAlwaysSuccess(st) == <<Printed("Success", 0, << >>)>>

\* A faulty report: any 2xx answer to a DELETE counts as a success.
DeleteReport2xx(st) ==
    IF st \in 200..299
    THEN <<Printed("Success", 0, << >>)>>
    ELSE <<Printed("Failed", st, << >>), Printed("body", 0, << >>)>>

\* What the for loop prints for a DELETE answered st.
DeleteReport(st) ==
    IF st = StatusNoContent
    THEN <<Printed("Success", 0, << >>)>>
    ELSE <<Printed("Failed", st, << >>), Printed("body", 0, << >>)>>

\* A faulty for loop: the first DELETE that is not answered 204 ends the batch.
DeleteRunHaltOnFailure ==
    /\ pc = "deleting"
    /\ idx <= Len(workflow_runs)
    /\ \E st \in DeleteStatuses :
          LET req == Request("DELETE",
                             RunUrl(owner[1], repo[1], workflow_runs[idx].id),
                             << >>, st, << >>, None)
          IN  /\ requests' = Append(requests, req)
              /\ events' = events \o <<Printed("DELETE", 0, req.url),
                                       Sent("DELETE", Len(requests) + 1, req.url)>>
                                  \o DeleteReport(st)
              /\ pc' = IF st = StatusNoContent THEN pc ELSE "done"
    /\ idx' = idx + 1
    /\ UNCHANGED parse_vars
    /\ UNCHANGED server_vars
    /\ UNCHANGED <<token, owner, repo, command, workflow_id, url,
                   response_data, workflow_runs, confirm>>

\* What one turn of the for loop does to the program when its DELETE is
\* answered st: http_delete for workflow_runs[idx], then the report.
Delete(st) ==
    /\ LET req == Request("DELETE",
                          RunUrl(owner[1], repo[1], workflow_runs[idx].id),
                          << >>, st, << >>, None)
       IN  /\ requests' = Append(requests, req)
           /\ events' = events \o <<Printed("DELETE", 0, req.url),
                                    Sent("DELETE", Len(requests) + 1, req.url)>>
                               \o DeleteReport(st)
    /\ idx' = idx + 1
    /\ UNCHANGED parse_vars
    /\ UNCHANGED <<pc, token, owner, repo, command, workflow_id, url,
                   response_data, workflow_runs, confirm>>

\* One turn of the for loop, the server answering anything.
DeleteRun ==
    /\ pc = "deleting"
    /\ idx <= Len(workflow_runs)
    /\ \E st \in DeleteStatuses : Delete(st)
    /\ UNCHANGED server_vars

\* A faulty ending: after the batch the run list is fetched again.
DeleteDoneRefetch ==
    /\ pc = "deleting"
    /\ idx > Len(workflow_runs)
    /\ events' = Append(events, Printed("Done.", 0, << >>))
    /\ pc' = "list_workflow_runs"
    /\ UNCHANGED parse_vars
    /\ UNCHANGED server_vars
    /\ UNCHANGED <<token, owner, repo, command, workflow_id, url, response_data,
                   workflow_runs, idx, confirm, requests>>

\* The for loop is exhausted: print("\nDone.")
DeleteDone ==
    /\ pc = "deleting"
    /\ idx > Len(workflow_runs)
    /\ events' = Append(events, Printed("Done.", 0, << >>))
    /\ pc' = "done"
    /\ UNCHANGED parse_vars
    /\ UNCHANGED server_vars
    /\ UNCHANGED <<token, owner, repo, command, workflow_id, url, response_data,
                   workflow_runs, idx, confirm, requests>>

Next ==
    \/ ReadToken
    \/ ReadCommand
    \/ ReadOwner
    \/ ReadRepo
    \/ ReadWorkflowId
    \/ CallListWorkflows
    \/ CallListWorkflowRuns
    \/ PaginateStep
    \/ PaginateExit
    \/ ListWorkflowsReport
    \/ CheckWorkflowRuns
    \/ ReadConfirm
    \/ DeleteRun
    \/ DeleteDone

Spec == Init /\ [][Next]_vars

\* ------------------------------------------- parse_link_header on its own

\* The most entries of a Link header given to parse_link_header on its own.
MaxEntries == 2

HeaderUrls == {UrlQuery, UrlPlain, UrlComma, UrlSemi}

HeaderRels == {RelNext, RelPrev, RelLast}

HeaderPads == {NoPad, <<" ">>, <<" ", "\t">>}

HeaderEntries ==
    {LinkEntry(u, r, p) : u \in HeaderUrls, r \in HeaderRels, p \in HeaderPads}

EntrySeqs == UNION {[1..n -> HeaderEntries] : n \in 1..MaxEntries}

ParseInputs == {Absent, Blank} \cup {Written(es) : es \in EntrySeqs}

UrlOther == <<"/", "x">>

\* Segments with no rel= attribute: no ';' part, a ';' part with no '=', and
\* a ';' part that names another attribute.
NoParams == <<"<">> \o UrlOther \o <<">">>

NoEquals == NoParams \o <<";", " ", "n", "e", "x", "t">>

OtherAttribute ==
    NoParams \o <<";", " ", "t", "i", "t", "l", "e", "=", "\"", "n", "e", "x", "t", "\"">>

MalformedSegments == {NoParams, NoEquals, OtherAttribute}

\* Entries whose URL holds neither ',' nor ';'.
CleanEntries ==
    {LinkEntry(u, r, p) : u \in {UrlQuery, UrlPlain}, r \in HeaderRels, p \in HeaderPads}

CleanSeqs == UNION {[1..n -> CleanEntries] : n \in 0..(MaxEntries - 1)}

\* A header written from the entries es and one malformed segment, which comes
\* first or last.
Garbled(es, seg, first) ==
    [entries   |-> es,
     text      |-> Some(IF es = << >> THEN seg
                        ELSE IF first THEN seg \o <<",">> \o Render(es)
                        ELSE Render(es) \o <<",">> \o seg),
     malformed |-> Some(seg)]

MalformedInputs ==
    {Garbled(es, seg, first) :
        es \in CleanSeqs, seg \in MalformedSegments, first \in BOOLEAN}

\* A call parse_link_header(link_header) about to be made.
ParseInit ==
    /\ pc = "parse_link_header"
    /\ token = None
    /\ owner = None
    /\ repo = None
    /\ command = ""
    /\ workflow_id = None
    /\ url = None
    /\ response_data = << >>
    /\ workflow_runs = << >>
    /\ idx = 0
    /\ confirm = None
    /\ \/ \E h \in ParseInputs :
             /\ link_entries = h.entries
             /\ link_header = h.text
             /\ link_malformed = None
       \/ \E h \in MalformedInputs :
             /\ link_entries = h.entries
             /\ link_header = h.text
             /\ link_malformed = h.malformed
    /\ links = Unset
    /\ server_runs = << >>
    /\ invocation = 1
    /\ deleted_first = {}
    /\ requests = << >>
    /\ events = << >>

\* The call returns (kind "none" or "dict") or raises (kind "raise").
ParseCall ==
    /\ pc = "parse_link_header"
    /\ links' = ParseLinkHeader(link_header)
    /\ pc' = "parsed"
    /\ UNCHANGED server_vars
    /\ UNCHANGED <<token, owner, repo, command, workflow_id, url, response_data,
                   workflow_runs, idx, confirm, link_entries, link_header,
                   link_malformed, requests, events>>

ParseNext == ParseCall

ParseSpec == ParseInit /\ [][ParseNext]_vars

\* ------------------------------------------------------------------ claims

GetReqs == SelectSeq(requests, LAMBDA r : r.method = "GET")

DeleteReqs == SelectSeq(requests, LAMBDA r : r.method = "DELETE")

AllOK(rs) == \A i \in 1..Len(rs) : rs[i].status = 200

PagesOf(rs) == [i \in 1..Len(rs) |-> rs[i].items]

StatusesOf(rs) == [i \in 1..Len(rs) |-> rs[i].status]

\* The items of the first n pages, page after page.
RECURSIVE ItemsUpTo(_, _)
ItemsUpTo(pages, n) == IF n = 0 THEN << >> ELSE ItemsUpTo(pages, n - 1) \o pages[n]

Concatenation(pages) == ItemsUpTo(pages, Len(pages))

RowsFor(items) ==
    [i \in 1..Len(items) |-> [kind |-> "print", tag |-> "row",
                              num |-> items[i].id, text |-> items[i].name]]

PrintedRows == SelectSeq(events, LAMBDA e : e.kind = "print" /\ e.tag = "row")

HasEvent(kind, tag) == \E i \in 1..Len(events) : events[i].kind = kind /\ events[i].tag = tag

\* paginate has returned to its caller.
PaginateReturned ==
    \/ pc \in {"returned", "confirm", "deleting"}
    \/ pc = "done" /\ command \in Commands

\* C1: when every page fetched was answered 200, paginate returns exactly the
\* pages' payloads in fetch order, the run list of delete_workflow_runs is the
\* concatenation of the pages' items in that order, and the rows list_workflows
\* prints are the items of that concatenation, one by one.
C1_PagesConcatenated ==
    (PaginateReturned /\ AllOK(GetReqs)) =>
        /\ response_data = PagesOf(GetReqs)
        /\ (command = "delete_workflow_runs" /\ pc # "returned")
              => workflow_runs = Concatenation(PagesOf(GetReqs))
        /\ (command = "list_workflows" /\ pc = "done")
              => PrintedRows = RowsFor(Concatenation(PagesOf(GetReqs)))

C1_Witness ==
    /\ pc = "confirm"
    /\ Len(GetReqs) = 2
    /\ AllOK(GetReqs)
    /\ Len(GetReqs[1].items) = 2
    /\ Len(GetReqs[2].items) = 1
    /\ Len(workflow_runs) = 3

Typed(c) == confirm = Some(c)

SaidYes == Typed(<<"y">>) \/ Typed(<<"Y">>)

\* C2: with a non-empty run list, a confirmation other than "y" or "Y" ends
\* the process at once: no DELETE was or is issued, and the prompt and the
\* abort message are the last things that happen.
C2_NoDeleteWithoutYes ==
    (confirm # None /\ ~SaidYes) =>
        /\ pc = "done"
        /\ workflow_runs # << >>
        /\ DeleteReqs = << >>
        /\ Len(events) >= 2
        /\ events[Len(events) - 1] = [kind |-> "prompt", tag |-> "confirm",
                                      num |-> 0, text |-> << >>]
        /\ events[Len(events)] = [kind |-> "print", tag |-> "Aborted.",
                                  num |-> 0, text |-> << >>]

C2_Witness == Typed(<<"y", "e", "s">>) /\ pc = "done" /\ Len(GetReqs) = 2

RequestEvents(method) ==
    {i \in 1..Len(events) : events[i].kind = "request" /\ events[i].tag = method}

ReportEvents ==
    {i \in 1..Len(events) :
        events[i].kind = "print" /\ events[i].tag \in {"Success", "Failed"}}

\* C3: after "y" or "Y" the i-th DELETE goes to the i-th entry of the run list,
\* whatever the earlier DELETEs were answered; when the loop is over there is
\* exactly one DELETE per entry; and every DELETE is followed at once by its
\* report, one report per DELETE.
C3_OneDeletePerRun ==
    SaidYes =>
        /\ pc \in {"deleting", "done"}
        /\ Len(DeleteReqs) = (IF pc = "done" THEN Len(workflow_runs) ELSE idx - 1)
        /\ \A i \in 1..Len(DeleteReqs) :
              DeleteReqs[i].url = RunUrl(owner[1], repo[1], workflow_runs[i].id)
        /\ \A p \in RequestEvents("DELETE") : p + 1 \in ReportEvents
        /\ Cardinality(ReportEvents) = Len(DeleteReqs)

C3_Witness ==
    /\ pc = "done"
    /\ SaidYes
    /\ StatusesOf(DeleteReqs) = <<204, 404, 204>>

\* C4: a GET answered with a status other than 200 is the last GET: paginate
\* leaves the loop without raising, holding exactly the payloads of the pages
\* before it, and the failure is printed.
C4_ErrorHaltsPagination ==
    \A k \in 1..Len(GetReqs) :
        GetReqs[k].status # 200 =>
            /\ k = Len(GetReqs)
            /\ pc \notin {"paginate", "crashed"}
            /\ response_data = PagesOf(SubSeq(GetReqs, 1, k - 1))
            /\ \E i \in 1..Len(events) :
                  events[i] = [kind |-> "print", tag |-> "Failed to retrieve items",
                               num |-> GetReqs[k].status, text |-> << >>]

C4_Witness ==
    /\ pc = "returned"
    /\ Len(GetReqs) = 2
    /\ GetReqs[2].status = 404
    /\ GetReqs[2].link # None
    /\ Len(response_data) = 1

PerPageQuery == <<"?", "p", "e", "r", "_", "p", "a", "g", "e", "=", "2", "0">>

\* C5: the first GET of paginate carries per_page, and every later GET goes to
\* exactly the URL the previous response gave as "next", nothing added.
C5_ContinuationUrlExact ==
    /\ Len(GetReqs) >= 1 => GetReqs[1].url = GetReqs[1].arg \o PerPageQuery
    /\ \A k \in 2..Len(GetReqs) :
          GetReqs[k].url = NextUrl(ParseLinkHeader(GetReqs[k - 1].link))[1]

\* How many times the character c occurs in s.
Count(s, c) == Cardinality({i \in 1..Len(s) : s[i] = c})

\* C6: the transport sends a URL that holds a '?' as it is, adds '?' and the
\* encoded parameters to a URL that holds none when parameters are given, and
\* so never sends a URL with two '?'.
C6_NoDoubleQuery ==
    \A i \in 1..Len(requests) :
        LET r == requests[i] IN
        /\ Contains(r.arg, "?") => r.url = r.arg
        /\ (~Contains(r.arg, "?") /\ r.params # << >>) => r.url = r.arg \o PerPageQuery
        /\ (~Contains(r.arg, "?") /\ r.params = << >>) => r.url = r.arg
        /\ Count(r.url, "?") <= 1

C6_Witness ==
    /\ Len(GetReqs) = 2
    /\ GetReqs[2].arg = UrlQuery
    /\ GetReqs[2].params # << >>
    /\ DeleteReqs # << >>

\* C7: a command name outside the two commands ends the process with the error
\* printed, no request sent and no prompt after the command prompt.
C7_InvalidCommandStops ==
    (pc \notin {"start", "command", "parse_link_header", "parsed"}
        /\ command \notin Commands) =>
        /\ pc = "done"
        /\ requests = << >>
        /\ owner = None /\ repo = None /\ workflow_id = None /\ confirm = None
        /\ events = <<[kind |-> "prompt", tag |-> "token", num |-> 0, text |-> << >>],
                      [kind |-> "prompt", tag |-> "command", num |-> 0, text |-> << >>],
                      [kind |-> "print", tag |-> "Invalid command", num |-> 0,
                       text |-> << >>]>>

C7_Witness == pc = "done" /\ command = "list"

\* C8: when the pages collected for delete_workflow_runs hold no run at all,
\* the command prints that no runs were found and ends: no question, no
\* confirmation prompt, no DELETE.
C8_EmptyRunListStops ==
    (/\ command = "delete_workflow_runs"
     /\ pc \in {"confirm", "deleting", "done"}
     /\ \A i \in 1..Len(response_data) : response_data[i] = << >>) =>
        /\ pc = "done"
        /\ events[Len(events)] = [kind |-> "print", tag |-> "No workflow runs found.",
                                  num |-> 0, text |-> << >>]
        /\ ~HasEvent("prompt", "confirm")
        /\ ~HasEvent("print", "Are you sure")
        /\ DeleteReqs = << >>

C8_Witness ==
    /\ command = "delete_workflow_runs"
    /\ pc = "done"
    /\ Len(response_data) = 2
    /\ response_data[1] = << >>
    /\ response_data[2] = << >>

\* What is printed after paginate's last output.
AfterPaginate ==
    LET last == CHOOSE i \in 1..Len(events) :
                    /\ events[i].kind = "request" \/ events[i].tag = "body"
                    /\ \A j \in (i + 1)..Len(events) :
                          ~(events[j].kind = "request" \/ events[j].tag = "body")
    IN  SubSeq(events, last + 1, Len(events))

\* C9: list_workflows never sends a DELETE; on an empty list it prints only
\* the empty-result message; otherwise it prints the heading, one row per
\* workflow in pagination order, and the total, which is the number of rows.
C9_ListWorkflowsReport ==
    command = "list_workflows" =>
        /\ DeleteReqs = << >>
        /\ pc = "done" =>
              LET W == Concatenation(response_data) IN
              AfterPaginate =
                 IF W = << >>
                 THEN <<[kind |-> "print", tag |-> "No workflows found.",
                         num |-> 0, text |-> << >>]>>
                 ELSE <<[kind |-> "print", tag |-> "Workflow ID / Workflow Name",
                         num |-> 0, text |-> << >>]>>
                      \o RowsFor(W)
                      \o <<[kind |-> "print", tag |-> "Total", num |-> Len(W),
                            text |-> << >>]>>

C9_Witness ==
    /\ command = "list_workflows"
    /\ pc = "done"
    /\ Len(PrintedRows) = 3

DistinctRels(es) == \A i, j \in 1..Len(es) : es[i].rel = es[j].rel => i = j

\* C10: parse_link_header returns None for an absent or empty header, and for
\* a header written from entries <url>; rel="name" (names distinct, any
\* padding) the mapping that sends each name to the URL of its entry.
C10_ParseLinkHeaderExact ==
    pc = "parsed" =>
        IF link_header = None \/ link_header = Some(<< >>)
        THEN links.kind = "none"
        ELSE (link_malformed = None /\ DistinctRels(link_entries)) =>
                /\ links.kind = "dict"
                /\ DOMAIN links.dict = {link_entries[i].rel : i \in 1..Len(link_entries)}
                /\ \A i \in 1..Len(link_entries) :
                      links.dict[link_entries[i].rel] = link_entries[i].url


\* The stage of the controller the program is in: 1 Start, 2 Command
\* Selection, 3 Target Selection, 4 Execute, 5 Terminal.
Stage(p) ==
    CASE p = "start"              -> 1
      [] p = "command"            -> 2
      [] p \in {"owner", "repo"}  -> 3
      [] p \in {"done", "crashed"} -> 5
      [] OTHER                    -> 4

PromptOrder == <<"token", "command", "owner", "repo", "workflow_id", "confirm">>

PromptEvents == SelectSeq(events, LAMBDA e : e.kind = "prompt")

\* The prompts shown so far are the first prompts of PromptOrder, each once.
PromptsInOrder ==
    /\ Len(PromptEvents) <= Len(PromptOrder)
    /\ \A i \in 1..Len(PromptEvents) : PromptEvents[i].tag = PromptOrder[i]

\* Every request comes after the prompt for the repository name.
RequestsAfterTarget ==
    \A p \in 1..Len(events) :
        events[p].kind = "request" =>
            \E q \in 1..(p - 1) : events[q].kind = "prompt" /\ events[q].tag = "repo"

\* C11: the controller never goes back to an earlier stage, so each stage is
\* entered at most once; the prompts come in the order token, command, owner,
\* repo, workflow id, confirmation, none of them twice; and no request is sent
\* before the repository name was read.
C11_LinearStages ==
    /\ [](PromptsInOrder /\ RequestsAfterTarget)
    /\ [][Stage(pc') >= Stage(pc)]_vars

C11_Witness ==
    /\ pc = "done"
    /\ Len(PromptEvents) = 6
    /\ Len(requests) >= 3


\* ------------------------------------- two invocations against one server

\* How many runs the server puts on one page.
ServerPageSize == 2

\* The runs the server holds before the first invocation.
ServerRuns ==
    <<Item(12, <<"c", "i">>), Item(5, <<"c", "i">>), Item(3, <<"c", "i">>)>>

\* The answer of a server that is not able to carry out a DELETE.
ServerError == 500

\* The answer to a DELETE of a run the server does not hold.
NotFound == 404

\* The page a URL asks for: the link the server hands out is for page 2.
PageNumber(u) == IF u = UrlQuery THEN 2 ELSE 1

Min(a, b) == IF a < b THEN a ELSE b

ServerPage(n) ==
    SubSeq(server_runs, (n - 1) * ServerPageSize + 1,
           Min(n * ServerPageSize, Len(server_runs)))

ServerLink(n) ==
    IF Len(server_runs) > n * ServerPageSize
    THEN Written(<<LinkEntry(UrlQuery, RelNext, NoPad)>>)
    ELSE Absent

Holds(id) == \E i \in 1..Len(server_runs) : server_runs[i].id = id

Without(id) == SelectSeq(server_runs, LAMBDA r : r.id # id)

\* The first invocation starts; the server holds ServerRuns.
RerunInit ==
    /\ pc = "start"
    /\ token = None
    /\ owner = None
    /\ repo = None
    /\ command = ""
    /\ workflow_id = None
    /\ url = None
    /\ response_data = << >>
    /\ workflow_runs = << >>
    /\ idx = 0
    /\ confirm = None
    /\ link_entries = << >>
    /\ link_header = None
    /\ links = Unset
    /\ link_malformed = None
    /\ server_runs = ServerRuns
    /\ invocation = 1
    /\ deleted_first = {}
    /\ requests = << >>
    /\ events = << >>

\* One turn of the while loop, the server answering with the page asked for
\* (it pages the workflows listing the same way).
ServerPaginateStep ==
    /\ pc = "paginate"
    /\ Truthy(url)
    /\ LET n == PageNumber(url[1]) IN Fetch(StatusOK, ServerPage(n), ServerLink(n))
    /\ UNCHANGED server_vars

\* One turn of the for loop: a DELETE answered 204 removes the run, a DELETE
\* the server fails to carry out leaves it in place, a DELETE of a run the
\* server does not hold is answered 404.
ServerDeleteRun ==
    /\ pc = "deleting"
    /\ idx <= Len(workflow_runs)
    /\ LET id == workflow_runs[idx].id IN
       IF Holds(id)
       THEN \/ /\ Delete(StatusNoContent)
               /\ server_runs' = Without(id)
               /\ deleted_first' =
                     IF invocation = 1 THEN deleted_first \cup {id} ELSE deleted_first
            \/ /\ Delete(ServerError)
               /\ UNCHANGED <<server_runs, deleted_first>>
       ELSE /\ Delete(NotFound)
            /\ UNCHANGED <<server_runs, deleted_first>>
    /\ UNCHANGED invocation

\* Somebody else removes a run between the listing and its DELETE.
Vanish ==
    /\ pc \in {"confirm", "deleting"}
    /\ \E i \in 1..Len(server_runs) : server_runs' = Without(server_runs[i].id)
    /\ UNCHANGED <<invocation, deleted_first>>
    /\ UNCHANGED parse_vars
    /\ UNCHANGED <<pc, token, owner, repo, command, workflow_id, url,
                   response_data, workflow_runs, idx, confirm, requests, events>>

\* The first invocation is over and the program is run again: a new process,
\* the same server.
Rerun ==
    /\ pc = "done"
    /\ invocation = 1
    /\ invocation' = 2
    /\ pc' = "start"
    /\ token' = None
    /\ owner' = None
    /\ repo' = None
    /\ command' = ""
    /\ workflow_id' = None
    /\ url' = None
    /\ response_data' = << >>
    /\ workflow_runs' = << >>
    /\ idx' = 0
    /\ confirm' = None
    /\ link_entries' = << >>
    /\ link_header' = None
    /\ links' = Unset
    /\ link_malformed' = None
    /\ requests' = << >>
    /\ events' = << >>
    /\ UNCHANGED <<server_runs, deleted_first>>

RerunNext ==
    \/ ReadToken
    \/ ReadCommand
    \/ ReadOwner
    \/ ReadRepo
    \/ ReadWorkflowId
    \/ CallListWorkflows
    \/ CallListWorkflowRuns
    \/ ServerPaginateStep
    \/ PaginateExit
    \/ ListWorkflowsReport
    \/ CheckWorkflowRuns
    \/ ReadConfirm
    \/ ServerDeleteRun
    \/ DeleteDone
    \/ Vanish
    \/ Rerun

RerunSpec == RerunInit /\ [][RerunNext]_vars

\* The DELETE requests of this invocation that went to run id.
DeletesOf(id) ==
    {i \in 1..Len(DeleteReqs) : DeleteReqs[i].url = RunUrl(owner[1], repo[1], id)}

RunIds(items) == {items[i].id : i \in 1..Len(items)}

\* C12: a second invocation sends DELETE only for runs the server listed to
\* it, never for a run the first invocation deleted; and in either invocation
\* a DELETE answered 404, for a run that vanished after the listing, is
\* reported as a failure and the batch goes on to its last run.
C12_RerunSkipsDeleted ==
    /\ invocation = 2 =>
          /\ \A id \in deleted_first : DeletesOf(id) = {}
          /\ \A i \in 1..Len(DeleteReqs) :
                \E id \in RunIds(Concatenation(PagesOf(GetReqs))) : i \in DeletesOf(id)
    /\ \A p \in RequestEvents("DELETE") :
          requests[events[p].num].status = 404 =>
             events[p + 1] = [kind |-> "print", tag |-> "Failed", num |-> 404,
                              text |-> << >>]
    /\ (pc = "done" /\ SaidYes) => Len(DeleteReqs) = Len(workflow_runs)

C12_Witness ==
    /\ invocation = 2
    /\ pc = "done"
    /\ deleted_first = {12}
    /\ StatusesOf(DeleteReqs) = <<404, 204>>


HasPrefix(s, p) == Len(s) >= Len(p) /\ SubSeq(s, 1, Len(p)) = p

\* The Authorization header of a request made with the token now held.
BearerToken == <<"B", "e", "a", "r", "e", "r", " ">> \o token[1]

\* The path prefix of the repository now held.
RepoPrefix == <<"/", "r", "e", "p", "o", "s", "/">> \o owner[1] \o <<"/">> \o repo[1] \o <<"/">>

\* A field that holds a value keeps it.
Kept(field, field_next) == field # None => field_next = field

\* C13 as stated: every request of the invocation carries the same
\* Authorization header and goes to a path under the same owner and repository.
C13_SameTargetEveryRequest ==
    \A i \in 1..Len(requests) :
        /\ requests[i].headers.Authorization = BearerToken
        /\ HasPrefix(requests[i].url, RepoPrefix)

\* C13, amended: token, owner and repo are written once, before Execute, and
\* never changed; every request carries the Authorization header of that
\* token; the first GET and every DELETE go to a path under /repos/owner/repo/,
\* while a later GET goes wherever the previous response's "next" link points.
C13_WrittenOnce ==
    /\ [](/\ Stage(pc) = 4 => (token # None /\ owner # None /\ repo # None)
          /\ \A i \in 1..Len(requests) :
                /\ requests[i].headers.Authorization = BearerToken
                /\ (i = 1 \/ requests[i].method = "DELETE")
                      => HasPrefix(requests[i].url, RepoPrefix))
    /\ [][/\ Kept(token, token') /\ Kept(owner, owner') /\ Kept(repo, repo')
          /\ Stage(pc) >= 4 => UNCHANGED <<token, owner, repo>>]_vars

C13_Witness ==
    /\ pc = "done"
    /\ Len(GetReqs) = 2
    /\ Len(DeleteReqs) = 2
    /\ ~HasPrefix(GetReqs[2].url, RepoPrefix)


\* C14: a DELETE is reported as a success exactly when it was answered 204,
\* and as a failure with its code and body for any other status; a GET's
\* payload is appended by paginate exactly when it was answered 200, and a GET
\* answered anything else, other 2xx codes included, is reported as a failure
\* and is the last GET.
C14_ExactStatusCodes ==
    /\ \A p \in RequestEvents("DELETE") :
          LET st == requests[events[p].num].status IN
          IF st = 204
          THEN events[p + 1] = [kind |-> "print", tag |-> "Success",
                                num |-> 0, text |-> << >>]
          ELSE /\ events[p + 1] = [kind |-> "print", tag |-> "Failed",
                                   num |-> st, text |-> << >>]
               /\ events[p + 2].tag = "body"
    /\ \A k \in 1..Len(GetReqs) :
          /\ GetReqs[k].status = 200 <=> k <= Len(response_data)
          /\ GetReqs[k].status = 200 => response_data[k] = GetReqs[k].items
          /\ GetReqs[k].status # 200 => k = Len(GetReqs) /\ pc # "paginate"
    /\ \A p \in RequestEvents("GET") :
          LET st == requests[events[p].num].status IN
          st # 200 => events[p + 1] = [kind |-> "print",
                                       tag |-> "Failed to retrieve items",
                                       num |-> st, text |-> << >>]

C14_Witness ==
    /\ pc = "done"
    /\ StatusesOf(GetReqs) = <<200, 201>>
    /\ StatusesOf(DeleteReqs) = <<200, 204>>


ConfirmPrompts ==
    {i \in 1..Len(events) : events[i].kind = "prompt" /\ events[i].tag = "confirm"}

\* C15: in the delete command every GET comes before the confirmation prompt,
\* the prompt comes before every DELETE, and no GET follows a DELETE.
C15_FetchBeforeDelete ==
    /\ \A g \in RequestEvents("GET"), q \in ConfirmPrompts : g < q
    /\ \A d \in RequestEvents("DELETE") : \E q \in ConfirmPrompts : q < d
    /\ \A q \in ConfirmPrompts, d \in RequestEvents("DELETE") : q < d
    /\ \A g \in RequestEvents("GET"), d \in RequestEvents("DELETE") : g < d
    /\ pc \in {"confirm", "deleting"} => Len(GetReqs) = Len(requests) - Len(DeleteReqs)
    /\ \A i \in 1..Len(requests) :
          requests[i].method = "DELETE" =>
             \A j \in i..Len(requests) : requests[j].method = "DELETE"

C15_Witness ==
    /\ pc = "done"
    /\ Len(GetReqs) = 2
    /\ Len(DeleteReqs) = 3
    /\ Cardinality(ConfirmPrompts) = 1


Questions ==
    {i \in 1..Len(events) : events[i].kind = "print" /\ events[i].tag = "Are you sure"}

\* The runs of the pages that were answered 200, in fetch order.
Collected ==
    Concatenation(PagesOf(SelectSeq(GetReqs, LAMBDA r : r.status = 200)))

ListingFailed == GetReqs # << >> /\ GetReqs[Len(GetReqs)].status # 200

\* C17: when the listing of the delete command ends on a failure after a
\* non-empty page, the question is still asked, with the number of runs
\* collected so far, and after a yes the DELETEs are for exactly those runs;
\* in every execution the number of DELETEs after a yes is the number the
\* question showed.
C17_PartialListingStillDeleted ==
    /\ (/\ command = "delete_workflow_runs"
        /\ ListingFailed
        /\ Collected # << >>
        /\ pc # "returned")
          => /\ pc \in {"confirm", "deleting", "done"}
             /\ \E q \in Questions : events[q].num = Len(Collected)
             /\ (pc = "done" /\ SaidYes) =>
                   DeleteReqs = [i \in 1..Len(Collected) |->
                                    Request("DELETE",
                                            RunUrl(owner[1], repo[1], Collected[i].id),
                                            << >>, DeleteReqs[i].status, << >>, None)]
    /\ (pc = "done" /\ SaidYes) =>
          \A q \in Questions : events[q].num = Len(DeleteReqs)
    /\ DeleteReqs # << >> => Questions # {}

C17_Witness ==
    /\ pc = "done"
    /\ SaidYes
    /\ StatusesOf(GetReqs) = <<200, 404>>
    /\ Len(DeleteReqs) = 2
    /\ \E q \in Questions : events[q].num = 2


\* ---------------------------------------------------------------------------
\* Termination. The while loop of paginate reads nothing but url, and url is
\* whatever the last response gave as "next": nothing in the loop remembers
\* the URLs already fetched. To follow the loop for as long as the server
\* keeps it going, the pages held and the two logs keep their most recent
\* entries only, which the loop never reads.

MaxLog == 2

Recent(s, n) == IF Len(s) <= n THEN s ELSE SubSeq(s, Len(s) - n + 1, Len(s))

\* One turn of the while loop, the server answering anything, as often as
\* the server keeps giving a "next".
LivePaginateStep ==
    /\ pc = "paginate"
    /\ Truthy(url)
    /\ \E st \in GetStatuses, items \in Payloads, link \in LinkHeaders :
          /\ st # StatusOK => items = << >> /\ link \in ErrorLinkHeaders
          /\ LET req == Request("GET", url[1], Params, st, items, link.text)
                 res == PageOutcome(st, items, link.text)
             IN  /\ requests' = Recent(Append(requests, req), MaxLog)
                 /\ events' = Recent(events \o <<Printed("GET", 0, req.url),
                                                 Sent("GET", Len(requests) + 1, req.url)>>
                                            \o res.out, MaxLog)
                 /\ link_entries' = link.entries
                 /\ link_header' = link.text
                 /\ link_malformed' = None
                 /\ links' = res.links
                 /\ response_data' = Recent(res.data, MaxLog)
                 /\ url' = res.url
                 /\ pc' = res.pc
    /\ UNCHANGED server_vars
    /\ UNCHANGED <<token, owner, repo, command, workflow_id, workflow_runs, idx,
                   confirm>>

LiveNext ==
    \/ ReadToken
    \/ ReadCommand
    \/ ReadOwner
    \/ ReadRepo
    \/ ReadWorkflowId
    \/ CallListWorkflows
    \/ CallListWorkflowRuns
    \/ LivePaginateStep
    \/ PaginateExit
    \/ ListWorkflowsReport
    \/ CheckWorkflowRuns
    \/ ReadConfirm
    \/ DeleteRun
    \/ DeleteDone

\* Every request is answered and every prompt gets an input: a step that can
\* be taken is taken.
LiveSpec == Init /\ [][LiveNext]_vars /\ WF_vars(LiveNext)

\* C16: every invocation eventually ends, whatever the server answers, also
\* when a "next" relation points to a URL that was already fetched.
C16_EventuallyTerminal == <>(pc \in {"done", "crashed"})


\* C18: for a header that holds a segment with no rel= attribute,
\* parse_link_header raises, or returns a mapping in which every relation has
\* a URL that a well-formed segment of the header gave for that relation.
C18_MalformedNeverMisattributed ==
    (pc = "parsed" /\ link_malformed # None) =>
        \/ links.kind = "raise"
        \/ /\ links.kind = "dict"
           /\ \A k \in DOMAIN links.dict :
                 \E i \in 1..Len(link_entries) :
                    /\ link_entries[i].rel = k
                    /\ link_entries[i].url = links.dict[k]

====
